---- MODULE Spec2Model ----
(***************************************************************************)
(* Model of blitz11.hpp: MemoryBlock (owned / borrowed byte buffer held    *)
(* through a std::shared_ptr), Dope (range and stride of one dimension),   *)
(* index_diff (the offset engine), index (element access) and the two      *)
(* array classes GeneralArray and Array that delegate to index.            *)
(*                                                                         *)
(* Two specifications share the module:                                    *)
(*   SpecIndex  element accesses on one array (buffer + dope vector)       *)
(*   SpecOwn    construction, copy and destruction of MemoryBlocks         *)
(* Machine words (size_t, ptrdiff_t, long) are WordBits wide in the model; *)
(* the char type keeps its real width, CharBits.                           *)
(***************************************************************************)
EXTENDS Integers, Sequences, FiniteSets, TLC

MaxRank == 2
MaxExtent == 2
MaxObjs == 3
MaxAllocs == 2
WordBits == 16
CharBits == 8

\* input sets of the model
ByteSizes == {10, 200, 264}
OwnedSizes == {10, 200}
ElemSizes == {8}
Garbage == {-1, 0}

VARIABLES
    charSigned,  \* build property: plain char is a signed type
    memory,      \* SpecIndex: the array's MemoryBlock (_memory)
    dopes,       \* SpecIndex: the array's dope vector (_dopes)
    elemSize,    \* SpecIndex: sizeof(ValueT)
    pc,          \* SpecIndex: "idle", "done" (operator[] returned), "fault"
    given,       \* SpecIndex: the index sequence handed to operator[]
    idx,         \* SpecIndex: the rank() values index_diff read through the pointer
    checking,    \* SpecIndex: range_error != nullptr
    diff,        \* SpecIndex: what index_diff returned
    ret,         \* SpecIndex: the address operator[] returned
    log,         \* SpecIndex: the calls made to *range_error, in order
    objs,        \* SpecOwn: live MemoryBlock objects, handle -> fields
    heap,        \* SpecOwn: memory regions, region -> use count / liveness
    last         \* SpecOwn: the last operation performed

vars == <<charSigned, memory, dopes, elemSize, pc, given, idx, checking, diff, ret, log,
          objs, heap, last>>

indexVars == <<memory, dopes, elemSize, pc, given, idx, checking, diff, ret, log>>
ownVars == <<objs, heap, last>>

----------------------------------------------------------------------------
(* Integer conversions *)

Pow2(n) == 2 ^ n

\* conversion to size_t (unsigned, WordBits wide)
ToSizeT(x) == x % Pow2(WordBits)

\* conversion to ptrdiff_t / long (signed, WordBits wide, two's complement)
ToPtrdiff(x) ==
    LET u == x % Pow2(WordBits)
    IN IF u >= Pow2(WordBits - 1) THEN u - Pow2(WordBits) ELSE u

\* conversion to CharT (char or const char), signed or unsigned by the build
ToCharT(x, signed) ==
    LET u == x % Pow2(CharBits)
    IN IF signed /\ u >= Pow2(CharBits - 1) THEN u - Pow2(CharBits) ELSE u

----------------------------------------------------------------------------
(* Memory regions and MemoryBlock *)

\* a memory region is named by a number: the caller's memory (what a borrowed
\* block's base points into) and the regions new CharT[n] hands out
ExtRegion == 0
HeapRegions == 1..MaxAllocs
Regions == {ExtRegion} \cup HeapRegions

\* the region of a null pointer: get() of an empty shared_ptr
NullRegion == -1

Ptr(blk, off) == [blk |-> blk, off |-> off]

NullPtr == Ptr(NullRegion, 0)

\* MemoryBlock(size_t size_bytes): the block holds new CharT[size_bytes]
\* (region r) in _held.  argN (the constructor's argument) and mode (which
\* constructor built the block) are kept for reference; the class stores neither.
MemoryBlockOwned(r, size_bytes) ==
    [held |-> Ptr(r, 0), base |-> Ptr(r, 0), size_bytes |-> ToSizeT(size_bytes),
     argN |-> size_bytes, mode |-> "Owned"]

\* the same constructor, taking ownership of the caller's memory
MemoryBlockBorrowedAdopt(base, size_bytes, signed) ==
    [held |-> base, base |-> base,
     size_bytes |-> ToSizeT(ToCharT(size_bytes, signed)), argN |-> size_bytes,
     mode |-> "Borrowed"]

\* MemoryBlock(CharT * const base, CharT const size_bytes): _held stays empty;
\* the size parameter has type CharT and is converted to size_t on storing.
MemoryBlockBorrowed(base, size_bytes, signed) ==
    [held |-> NullPtr, base |-> base,
     size_bytes |-> ToSizeT(ToCharT(size_bytes, signed)), argN |-> size_bytes,
     mode |-> "Borrowed"]

\* RangeErrorFn: the callback's parameters, in declaration order
RangeErrorFn(type, idim, low, high, index) ==
    [type |-> type, idim |-> idim, low |-> ToPtrdiff(low), high |-> ToPtrdiff(high),
     index |-> ToPtrdiff(index)]

\* index_bytes with > where the source has >=
index_bytes_OffByOne(mem, diff_bytes, range_error) ==
    [loc |-> Ptr(mem.base.blk, mem.base.off + diff_bytes),
     calls |-> IF range_error /\ (diff_bytes < 0 \/ ToSizeT(diff_bytes) > mem.size_bytes)
               THEN <<RangeErrorFn("Memory", 0, diff_bytes, 0, mem.size_bytes)>>
               ELSE << >>]

\* index_bytes returning the base address for an offset found out of range
index_bytes_Clamp(mem, diff_bytes, range_error) ==
    LET bad == diff_bytes < 0 \/ ToSizeT(diff_bytes) >= mem.size_bytes
    IN [loc |-> IF range_error /\ bad THEN mem.base
                ELSE Ptr(mem.base.blk, mem.base.off + diff_bytes),
        calls |-> IF range_error /\ bad
                  THEN <<RangeErrorFn("Memory", 0, diff_bytes, 0, mem.size_bytes)>>
                  ELSE << >>]

\* MemoryBlock::index_bytes: the address and the calls made to *range_error
index_bytes(mem, diff_bytes, range_error) ==
    [loc |-> Ptr(mem.base.blk, mem.base.off + diff_bytes),
     calls |-> IF range_error /\ (diff_bytes < 0 \/ ToSizeT(diff_bytes) >= mem.size_bytes)
               THEN <<RangeErrorFn("Memory", 0, diff_bytes, 0, mem.size_bytes)>>
               ELSE << >>]

----------------------------------------------------------------------------
(* Dope and the offset engine *)

\* struct Dope: range = [low, high), stride.  range[1], range[2] are the
\* source's range[0], range[1].
Dope(low, high, stride) == [range |-> <<low, high>>, stride |-> stride]

\* loop body with the sum overwritten instead of accumulated
index_diff_step_Assign(dps, index, i, range_error, st) ==
    [diff |-> ToPtrdiff(index[i] * dps[i].stride),
     calls |-> IF range_error /\ ((index[i] < dps[i].range[1]) \/ (index[i] >= dps[i].range[2]))
               THEN Append(st.calls, RangeErrorFn("Indexing", i - 1, index[i],
                                                  dps[i].range[1], dps[i].range[2]))
               ELSE st.calls]

\* loop body that reports only the first violated dimension
index_diff_step_Short(dps, index, i, range_error, st) ==
    [diff |-> ToPtrdiff(st.diff + index[i] * dps[i].stride),
     calls |-> IF range_error /\ st.calls = << >>
                  /\ ((index[i] < dps[i].range[1]) \/ (index[i] >= dps[i].range[2]))
               THEN Append(st.calls, RangeErrorFn("Indexing", i - 1, index[i],
                                                  dps[i].range[1], dps[i].range[2]))
               ELSE st.calls]

\* index_diff, one iteration of the loop (i is 1-based here, i - 1 in the source)
index_diff_step(dps, index, i, range_error, st) ==
    [diff |-> ToPtrdiff(st.diff + index[i] * dps[i].stride),
     calls |-> IF range_error /\ ((index[i] < dps[i].range[1]) \/ (index[i] >= dps[i].range[2]))
               THEN Append(st.calls, RangeErrorFn("Indexing", i - 1, index[i],
                                                  dps[i].range[1], dps[i].range[2]))
               ELSE st.calls]

RECURSIVE index_diff_loop(_, _, _, _, _, _)
index_diff_loop(dps, index, rank, range_error, i, st) ==
    IF i > rank THEN st
    ELSE index_diff_loop(dps, index, rank, range_error, i + 1,
                         index_diff_step(dps, index, i, range_error, st))

\* index_diff: diff and the calls made to *range_error
index_diff(dps, index, rank, range_error) ==
    index_diff_loop(dps, index, rank, range_error, 1, [diff |-> 0, calls |-> << >>])

\* index<ValueT, IndexT>: the element's address and the calls made
index(mem, dps, ix, rank, range_error, sizeofValueT) ==
    LET d == index_diff(dps, ix, rank, range_error)
        b == index_bytes(mem, ToPtrdiff(ToSizeT(d.diff * sizeofValueT)), range_error)
    IN [vloc |-> b.loc, calls |-> d.calls \o b.calls, diff |-> d.diff]

----------------------------------------------------------------------------
(* The arrays of SpecIndex *)

\* the dopes a dimension may have: zero- and negative-based ranges of
\* MaxExtent indices, with positive, zero and negative strides
Dopes == {Dope(0, MaxExtent, 1), Dope(0, MaxExtent, 4), Dope(0, MaxExtent, 0),
          Dope(0, MaxExtent, -1), Dope(-1, MaxExtent - 1, -1)}

SeqsOf(S, n) == [1..n -> S]

Layouts == UNION {SeqsOf(Dopes, r) : r \in 1..MaxRank}

\* the values tried for index[i]: both ends of the range and one beyond either
IndexVals(d) == {d.range[1] - 1, d.range[1], d.range[2] - 1, d.range[2]}

\* for a vector of the wrong length: one valid value and one beyond the range
IndexValsShort(d) == {d.range[1], d.range[2]}

RECURSIVE IndexArrays(_, _)
\* index arrays of exactly n entries for the first n dimensions
IndexArrays(dps, n) ==
    IF n = 0 THEN {<< >>}
    ELSE {Append(ix, v) : ix \in IndexArrays(dps, n - 1), v \in IndexVals(dps[n])}

RECURSIVE IndexVectors(_, _)
\* vectors of n entries, n different from the rank; an entry beyond the rank is 0
IndexVectors(dps, n) ==
    IF n = 0 THEN {<< >>}
    ELSE {Append(ix, v) : ix \in IndexVectors(dps, n - 1),
                          v \in IF n <= Len(dps) THEN IndexValsShort(dps[n]) ELSE {0}}

\* the buffers an array may be built on
Buffers(signed) ==
    {MemoryBlockOwned(1, n) : n \in OwnedSizes}
    \cup {MemoryBlockBorrowed(Ptr(ExtRegion, 0), n, signed) : n \in ByteSizes}

\* no region handed out, the caller's memory alive
HeapInit == [r \in Regions |->
               [count |-> 0, live |-> r = ExtRegion, allocs |-> 0, deletes |-> 0]]

NoOp == [op |-> "none", borrowed |-> FALSE, src |-> 0, dst |-> 0]

OwnIdle == objs = << >> /\ heap = HeapInit /\ last = NoOp

InitIndex ==
    /\ charSigned \in BOOLEAN
    /\ memory \in Buffers(charSigned)
    /\ dopes \in Layouts
    /\ elemSize \in ElemSizes
    /\ pc = "idle"
    /\ given = << >>
    /\ idx = << >>
    /\ checking = FALSE
    /\ diff = 0
    /\ ret = NullPtr
    /\ log = << >>
    /\ OwnIdle

\* GeneralArray::rank / Array::rank
rank == Len(dopes)

\* the access itself: index(_memory, &_dopes[0], index, rank(), range_error)
Access(vec, ix, range_error) ==
    LET r == index(memory, dopes, ix, rank, range_error, elemSize)
    IN /\ pc = "idle"
       /\ pc' = "done"
       /\ given' = vec
       /\ idx' = ix
       /\ checking' = range_error
       /\ diff' = r.diff
       /\ ret' = r.vloc
       /\ log' = r.calls
       /\ UNCHANGED <<charSigned, memory, dopes, elemSize, ownVars>>

\* Array::operator[](IndexT const *index, range_error): RANK values are read
ArrayIndex ==
    /\ pc = "idle"
    /\ \E ix \in IndexArrays(dopes, rank), re \in BOOLEAN : Access(ix, ix, re)

\* GeneralArray::operator[](IndexT const *index, range_error)
GeneralArrayIndexPtr ==
    /\ pc = "idle"
    /\ \E ix \in IndexArrays(dopes, rank), re \in BOOLEAN : Access(ix, ix, re)

RECURSIVE ReadThrough(_, _)
\* what index_diff reads through &index[0] for a vector of any length: the
\* vector's entries, then whatever lies behind its storage
ReadThrough(vec, n) ==
    IF n = 0 THEN {<< >>}
    ELSE {Append(ix, v) : ix \in ReadThrough(vec, n - 1),
                          v \in IF n <= Len(vec) THEN {vec[n]} ELSE Garbage}

\* GeneralArray::operator[](std::vector<IndexT> const &index, range_error):
\* the vector's length is not looked at
GeneralArrayIndexVec ==
    /\ pc = "idle"
    /\ \E n \in 0..(rank + 1), re \in BOOLEAN :
        \E vec \in IF n = rank THEN IndexArrays(dopes, n) ELSE IndexVectors(dopes, n) :
          \/ \E ix \in ReadThrough(vec, rank) : Access(vec, ix, re)
          \/ /\ n < rank          \* the read behind the vector's storage faults
             /\ pc' = "fault"
             /\ given' = vec
             /\ checking' = re
             /\ UNCHANGED <<idx, diff, ret, log>>
             /\ UNCHANGED <<charSigned, memory, dopes, elemSize, ownVars>>

\* the caller goes on to its next access
Return ==
    /\ pc \in {"done", "fault"}
    /\ pc' = "idle"
    /\ given' = << >>
    /\ idx' = << >>
    /\ checking' = FALSE
    /\ diff' = 0
    /\ ret' = NullPtr
    /\ log' = << >>
    /\ UNCHANGED <<charSigned, memory, dopes, elemSize, ownVars>>

NextIndex == ArrayIndex \/ GeneralArrayIndexPtr \/ GeneralArrayIndexVec \/ Return

SpecIndex == InitIndex /\ [][NextIndex]_vars

----------------------------------------------------------------------------
(* SpecOwn: construction, copy and destruction of MemoryBlocks *)

\* new CharT[n] returning region r
operator_new(hp, r) == [hp EXCEPT ![r].live = TRUE, ![r].allocs = @ + 1]

\* array_deleter without the delete[]
array_deleter_Leak(hp, p) == hp

\* array_deleter<T>::operator(): delete[] p
array_deleter(hp, p) == [hp EXCEPT ![p.blk].live = FALSE, ![p.blk].deletes = @ + 1]

\* _held constructed from (pointer, deleter): a new control block, use count 1;
\* _held default-constructed: empty
held_init(hp, p) ==
    IF p = NullPtr THEN hp ELSE [hp EXCEPT ![p.blk].count = 1]

\* _held copied: the use count goes up by one, an empty one stays empty
held_copy(hp, p) ==
    IF p = NullPtr THEN hp ELSE [hp EXCEPT ![p.blk].count = @ + 1]

\* _held destroyed: the use count goes down by one and the deleter runs at zero
held_destroy(hp, p) ==
    IF p = NullPtr THEN hp
    ELSE IF hp[p.blk].count = 1
         THEN array_deleter([hp EXCEPT ![p.blk].count = 0], p)
         ELSE [hp EXCEPT ![p.blk].count = @ - 1]

FreeHandles == (1..MaxObjs) \ DOMAIN objs
NewHandle == CHOOSE h \in FreeHandles : \A g \in FreeHandles : h <= g
FreshRegions == {r \in HeapRegions : heap[r].allocs = 0}
NewRegion == CHOOSE r \in FreshRegions : \A q \in FreshRegions : r <= q

Put(f, h, o) == [x \in DOMAIN f \cup {h} |-> IF x = h THEN o ELSE f[x]]
Drop(f, h) == [x \in DOMAIN f \ {h} |-> f[x]]

NoBlock == MemoryBlockBorrowed(NullPtr, 0, FALSE)

IndexIdle ==
    /\ memory = NoBlock
    /\ dopes = << >>
    /\ elemSize = 0
    /\ pc = "idle"
    /\ given = << >>
    /\ idx = << >>
    /\ checking = FALSE
    /\ diff = 0
    /\ ret = NullPtr
    /\ log = << >>

InitOwn ==
    /\ charSigned \in BOOLEAN
    /\ IndexIdle
    /\ OwnIdle

\* a block comes to life with the fields its constructor set
Construct(o) ==
    LET h == NewHandle
    IN /\ objs' = Put(objs, h, o)
       /\ last' = [op |-> "create", borrowed |-> o.mode = "Borrowed", src |-> 0, dst |-> h]

\* MemoryBlock(size_t size_bytes)
CreateOwned ==
    /\ FreeHandles # {}
    /\ FreshRegions # {}
    /\ \E n \in ByteSizes :
         LET o == MemoryBlockOwned(NewRegion, n)
         IN /\ Construct(o)
            /\ heap' = held_init(operator_new(heap, NewRegion), o.held)
    /\ UNCHANGED <<charSigned, indexVars>>

\* MemoryBlock(CharT * const base, CharT const size_bytes) on the caller's memory
CreateBorrowed ==
    /\ FreeHandles # {}
    /\ \E n \in ByteSizes :
         LET o == MemoryBlockBorrowed(Ptr(ExtRegion, 0), n, charSigned)
         IN /\ Construct(o)
            /\ heap' = held_init(heap, o.held)
    /\ UNCHANGED <<charSigned, indexVars>>

\* the implicit copy constructor: every member is copied
CopyOf(h) ==
    /\ FreeHandles # {}
    /\ objs' = Put(objs, NewHandle, objs[h])
    /\ heap' = held_copy(heap, objs[h].held)
    /\ last' = [op |-> "copy", borrowed |-> objs[h].mode = "Borrowed", src |-> h,
                dst |-> NewHandle]
    /\ UNCHANGED <<charSigned, indexVars>>

\* the implicit destructor: every member is destroyed
DestroyOf(h) ==
    /\ objs' = Drop(objs, h)
    /\ heap' = held_destroy(heap, objs[h].held)
    /\ last' = [op |-> "destroy", borrowed |-> objs[h].mode = "Borrowed", src |-> h,
                dst |-> 0]
    /\ UNCHANGED <<charSigned, indexVars>>

\* a MemoryBlock is copied
MemoryBlockCopy == \E h \in DOMAIN objs : CopyOf(h)

\* a MemoryBlock is destroyed
MemoryBlockDestroy == \E h \in DOMAIN objs : DestroyOf(h)

\* an array (GeneralArray or Array) is copied: its member _memory is copied
ArrayCopy == \E h \in DOMAIN objs : CopyOf(h)

\* an array is destroyed: its member _memory is destroyed
ArrayDestroy == \E h \in DOMAIN objs : DestroyOf(h)

NextOwn ==
    \/ CreateOwned
    \/ CreateBorrowed
    \/ MemoryBlockCopy
    \/ MemoryBlockDestroy
    \/ ArrayCopy
    \/ ArrayDestroy

SpecOwn == InitOwn /\ [][NextOwn]_vars

----------------------------------------------------------------------------
(* Properties *)

Done == pc = "done"

RECURSIVE StrideSum(_, _, _)
\* the sum over the first n dimensions of ix[i] * stride_i
StrideSum(ix, dps, n) ==
    IF n = 0 THEN 0 ELSE StrideSum(ix, dps, n - 1) + ix[n] * dps[n].stride

InRange(i) == dopes[i].range[1] <= idx[i] /\ idx[i] < dopes[i].range[2]
AllInRange == \A i \in 1..rank : InRange(i)
ViolatedDims == {i \in 1..rank : ~InRange(i)}

Calls(type) == SelectSeq(log, LAMBDA e : e.type = type)
Called(e) == \E k \in 1..Len(log) : log[k] = e

\* the byte offset handed to index_bytes
ByteOffset == diff * elemSize
ByteOutOfRange == ByteOffset < 0 \/ ByteOffset >= memory.size_bytes

\* C1: for an index vector with every index[i] in [low_i, high_i), index_diff
\* returns the sum over the dimensions of index[i] * stride_i, whatever the
\* signs of the strides.
C1_OffsetIsStrideSum ==
    (Done /\ AllInRange) => diff = StrideSum(idx, dopes, rank)

\* C1 witness: ranges [0,2) and [-1,1), strides (4, -1), index (1, -1) resolves
\* to offset 1*4 + (-1)*(-1) = 5.
C1_Witness ==
    /\ Done /\ AllInRange /\ rank = 2
    /\ dopes[1].stride = 4 /\ dopes[2].stride = -1
    /\ idx = <<1, -1>>
    /\ diff = 5

\* C2: with checking enabled, every index[i] outside [low_i, high_i) is
\* reported by a call ("Indexing", dimension = i, low = low_i, high = high_i,
\* offending_index = index[i]) of the diagnostic.
C2_IndexingArguments ==
    (Done /\ checking) =>
        \A i \in ViolatedDims :
            Called([type |-> "Indexing", idim |-> i - 1, low |-> dopes[i].range[1],
                    high |-> dopes[i].range[2], index |-> idx[i]])

\* C3: with checking enabled, a byte offset outside [0, size_in_bytes) is
\* reported by a call ("Memory", dimension = 0, low = 0, high = size_in_bytes,
\* offending_index = the byte offset) of the diagnostic.
C3_MemoryArguments ==
    (Done /\ checking /\ ByteOutOfRange) =>
        Called([type |-> "Memory", idim |-> 0, low |-> 0,
                high |-> ToPtrdiff(memory.size_bytes), index |-> ByteOffset])

\* C4 as stated: when two dimensions i < j are violated by one index vector, an
\* "Indexing" diagnostic names i and none names j.
C4_ShortCircuit ==
    (Done /\ checking) =>
        \A i, j \in ViolatedDims :
            i < j => /\ \E k \in 1..Len(log) : log[k].type = "Indexing" /\ log[k].idim = i - 1
                     /\ ~\E k \in 1..Len(log) : log[k].type = "Indexing" /\ log[k].idim = j - 1

\* C4 as amended: the "Indexing" diagnostics of one offset computation name
\* exactly the violated dimensions, once each, in ascending order; so the first
\* names the lowest violated dimension and every later violated one follows.
C4_EveryViolatedDimInOrder ==
    (Done /\ checking) =>
        LET ind == Calls("Indexing")
        IN /\ Len(ind) = Cardinality(ViolatedDims)
           /\ \A k \in 1..Len(ind) : ind[k].idim + 1 \in ViolatedDims
           /\ \A k, l \in 1..Len(ind) : k < l => ind[k].idim < ind[l].idim

\* C4 witness: an index vector violating two dimensions has been reported twice.
C4_Witness ==
    /\ Done /\ checking
    /\ Cardinality(ViolatedDims) = 2
    /\ Len(Calls("Indexing")) = 2
    /\ Calls("Indexing")[1].idim = 0 /\ Calls("Indexing")[2].idim = 1

\* C5: GeneralArray indexing with a sequence whose length differs from rank()
\* ends in a RankMismatch failure: no diagnostic call, no run of the offset
\* engine, no element address.
C5_RankMismatch ==
    (pc # "idle" /\ Len(given) # rank) =>
        /\ pc = "RankMismatch"
        /\ log = << >>
        /\ idx = << >>
        /\ ret = NullPtr

\* the MemoryBlocks alive whose _held owns region r
Refs(r) == {h \in DOMAIN objs : objs[h].held = Ptr(r, 0)}

\* C6: for owned memory, the reference count equals the number of blocks alive
\* that refer to it (one more per copy, one less per destroy); the memory is
\* allocated while a referencing block is alive and has been released exactly
\* once when none is.
C6_OwnedRefCount ==
    \A r \in HeapRegions :
        /\ heap[r].count = Cardinality(Refs(r))
        /\ heap[r].allocs = 0 => (Refs(r) = {} /\ ~heap[r].live /\ heap[r].deletes = 0)
        /\ heap[r].allocs = 1 =>
              /\ Refs(r) # {} => (heap[r].live /\ heap[r].deletes = 0)
              /\ Refs(r) = {} => (~heap[r].live /\ heap[r].deletes = 1)
        /\ heap[r].allocs <= 1

\* C6 witness: one owned region released by the destruction of its last block
\* while another, copied once, is still referenced by two blocks.
C6_Witness ==
    /\ last.op = "destroy" /\ ~last.borrowed
    /\ \E r, q \in HeapRegions :
         /\ heap[r].allocs = 1 /\ heap[r].deletes = 1 /\ heap[r].count = 0
         /\ heap[q].count = 2 /\ heap[q].live

\* C7: constructing, copying or destroying a borrowed block changes no
\* reference count and allocates and frees nothing; the caller's memory is
\* never released; the copy of a borrowed block holds nothing and has the same
\* base pointer.
C7_BorrowedNeverOwns ==
    [][/\ heap'[ExtRegion] = heap[ExtRegion]
       /\ heap[ExtRegion].live /\ heap[ExtRegion].deletes = 0 /\ heap[ExtRegion].count = 0
       /\ last'.borrowed =>
             /\ heap' = heap
             /\ last'.op = "copy" =>
                   /\ objs'[last'.dst].held = NullPtr
                   /\ objs'[last'.dst].base = objs[last'.src].base
                   /\ objs'[last'.dst].base = Ptr(ExtRegion, 0)]_vars

\* C7 witness: the last borrowed block has been destroyed, after a copy, while
\* an owned block is alive.
C7_Witness ==
    /\ last.op = "destroy" /\ last.borrowed
    /\ \E r \in HeapRegions : heap[r].count = 1
    /\ \A h \in DOMAIN objs : objs[h].mode = "Owned"
    /\ heap[ExtRegion].live

\* C8: the size a block records is the size_in_bytes its constructor was given,
\* for both constructors and every n, and stays so in every copy.
C8_SizeIsConstructorArgument ==
    \A h \in DOMAIN objs : objs[h].size_bytes = objs[h].argN

C10_WholeElementInside ==
    (Done /\ checking /\ log = << >>) =>
        (0 <= ByteOffset /\ ByteOffset + elemSize <= memory.size_bytes)

\* C10 as amended: with checking enabled and no diagnostic call, the element's
\* first byte d*w lies inside [0, size_bytes) of the size the block records.
C10_FirstByteInside ==
    (Done /\ checking /\ log = << >>) =>
        (0 <= ByteOffset /\ ByteOffset < memory.size_bytes)

\* C10 witness: an unreported access whose element reaches past the buffer.
C10_Witness ==
    /\ Done /\ checking /\ log = << >>
    /\ ByteOffset > 0
    /\ ByteOffset + elemSize > memory.size_bytes

====
